---- MODULE Spec2Model ----
(***************************************************************************)
(* Model of scripts/download_binance.py: main() walks the configured data  *)
(* sources and, for each, get_binance_historical_klines() fetches klines   *)
(* year by year, merges them into the data frame loaded from the csv file, *)
(* drops the last row and writes the file.                                  *)
(*                                                                         *)
(* Time is counted in days since 2017-01-01.  A row of a table is a record *)
(* [ts, v]: ts the open time of the kline, v the version of its content    *)
(* ("old" stored by an earlier run, "closed"/"open" as served now).         *)
(* ds.get("file") is taken to be a path object, so that line 102 yields    *)
(* the csv file of the entry; the file is not placed under the folder.     *)
(***************************************************************************)
EXTENDS Integers, Sequences, FiniteSets, TLC

\* ---- bounds of the model ----
Interval == 73          \* length of one kline in days (config "freq")
MaxBars == 11           \* the run starts at most MaxBars klines after 2017-01-01
MaxTicks == 1           \* klines that may open while the script runs
MaxRuns == 2            \* invocations of the script in one behaviour

\* ---- constants of the program ----
OneYear == 365          \* timedelta(days=365)
OneDay == 1             \* timedelta(days=1)
EpochFloor == 0         \* datetime(2017, 1, 1)
ResumeOffset == 5       \* iloc[-5]
RecentLimit == 5        \* get_klines(limit=5)

NoEnd == 0 - 1          \* end_dt = None
Absent == <<[ts |-> 0 - 1, v |-> "nofile"]>>   \* file_name.is_file() is False

Files == {"f1", "f2"}
\* entries of App.config["data_sources"]: folder (symbol) and file
Entries ==
  { [folder |-> "", file |-> "f1"], [folder |-> "BTC", file |-> "f1"],
    [folder |-> "ETH", file |-> "f1"], [folder |-> "ETH", file |-> "f2"] }
JobLists == { <<a, b>> : a \in Entries, b \in Entries }

InitLens == {1, 6}      \* lengths of the tables left by earlier runs
\* times at which the first invocation starts
InitClocks ==
  { k * Interval : k \in { n \in 0..MaxBars : n % 4 = 3 } } \cup {0, OneYear, OneYear + 1}

VARIABLES
  jobs,            \* data_sources
  store,           \* file name -> table on disk, or Absent
  clock,           \* wall clock, also the time of the server
  pc,              \* position of main: "loop","load","fetch","trim","done","aborted","killed"
  i,               \* index of ds in data_sources
  run,             \* number of the invocation
  latest_ts,       \* main: latest_ts
  df,              \* the data frame
  start_str,       \* get_binance_historical_klines: start_str
  now,             \* get_binance_historical_klines: now
  start_point_dt,  \* get_binance_historical_klines: start_point_dt
  windows,         \* (start_point_dt, end_dt) of the iterations of this job
  reqs,            \* (start_str, end_str) passed to get_historical_klines
  klines,          \* the last batch returned
  loaded,          \* the table read at the start of this job
  merged,          \* the data frame before df.iloc[:-1] of the last write
  started,         \* jobs of this run that reached "Start downloading"
  written,         \* jobs of this run that wrote their file
  ncalls,          \* remote calls of this run
  nwrites,         \* to_csv calls of this run
  failed,          \* job whose remote call raised (0: none), and which call
  jobStore,        \* store when the current job started
  ticks,           \* klines opened since Init
  tickedInJob,     \* a kline opened between get_klines and the last fetch
  snap             \* store at the end of the previous invocation

vars == << jobs, store, clock, pc, i, run, latest_ts, df, start_str, now,
           start_point_dt, windows, reqs, klines, loaded, merged, started,
           written, ncalls, nwrites, failed, jobStore, ticks, tickedInJob, snap >>

\* ---- tables ----
Row(t, ver) == [ts |-> t, v |-> ver]

TsOf(tbl) == { tbl[k].ts : k \in 1..Len(tbl) }

StrictlyIncreasing(tbl) == \A k \in 1..(Len(tbl) - 1) : tbl[k].ts < tbl[k + 1].ts

\* the row of tbl at timestamp t (the last one, should there be several)
RowAt(tbl, t) ==
  tbl[CHOOSE k \in 1..Len(tbl) :
        /\ tbl[k].ts = t
        /\ \A m \in 1..Len(tbl) : tbl[m].ts = t => m <= k]

\* the elements of S in increasing order
SortKeys(S) ==
  [n \in 1..Cardinality(S) |-> CHOOSE x \in S : Cardinality({ y \in S : y < x }) = n - 1]

\* a table of n rows written by an earlier run
OldTable(n) == [k \in 1..n |-> Row((k - 1) * Interval, "old")]

\* ---- the server ----
\* klines of a symbol at time t: one per Interval, the last one still open
RemoteBars(t) ==
  [k \in 1..((t \div Interval) + 1) |->
     Row((k - 1) * Interval, IF k - 1 = t \div Interval THEN "open" ELSE "closed")]

LastN(s, n) == IF Len(s) <= n THEN s ELSE SubSeq(s, Len(s) - n + 1, Len(s))

\* Client.get_klines(symbol, interval, limit)
getRecent(t, limit) == LastN(RemoteBars(t), limit)

\* Client.get_historical_klines(symbol, interval, start_str, end_str)
getRange(t, start, end) ==
  SelectSeq(RemoteBars(t), LAMBDA r : r.ts >= start /\ (end = NoEnd \/ r.ts <= end))


\* ---- common/utils.py: klines_to_df(klines, df) ----
\* rows keyed by timestamp, the batch's row wins, ordered by timestamp
klines_to_df(k, d) ==
  LET keys == SortKeys(TsOf(d) \cup TsOf(k))
  IN [n \in 1..Len(keys) |->
        IF keys[n] \in TsOf(k) THEN RowAt(k, keys[n]) ELSE RowAt(d, keys[n])]

\* ---- main ----
\* df["timestamp"].iloc[-5] raises IndexError on fewer than 5 rows
CanResume(d) == Len(d) >= ResumeOffset

ResumePoint(d) == d[Len(d) - ResumeOffset + 1].ts

\* pd.to_datetime(latest_klines[-1][0], unit='ms')
LatestTs(recent) == recent[Len(recent)].ts

\* ---- get_binance_historical_klines ----
\* variant: a difference of exactly one year still gets a bounded window
EndDt_atLeast(n, sp) == IF n - sp >= OneYear THEN sp + OneYear ELSE NoEnd

\* end_dt of one iteration; NoEnd also means more_data_to_fetch = False
EndDt(n, sp) == IF n - sp > OneYear THEN sp + OneYear ELSE NoEnd

\* variant: the next window starts where this one ends
NextStart_noOverlap(e) == e

\* start_point_dt for the next iteration
NextStart(e) == e - OneDay

\* variant: the request starts one day after the resume point
RequestStart_skipFirstDay(s, sp) == s + OneDay

\* the start_str argument of get_historical_klines
RequestStart(s, sp) == s

\* variant: the last row is not dropped
Trim_keepAll(d) == d

\* variant: a table of one row is left alone
Trim_keepSingle(d) == IF Len(d) <= 1 THEN d ELSE SubSeq(d, 1, Len(d) - 1)

\* variant: the stored rows win over the batch
Accumulate_oldWins(k, d) == klines_to_df(d, k)

\* variant: the batch is appended without dropping duplicates
Accumulate_append(k, d) == d \o k

\* line 176: df = klines_to_df(klines, df)
Accumulate(k, d) == klines_to_df(k, d)

\* df.iloc[:-1]
Trim(d) == IF Len(d) = 0 THEN d ELSE SubSeq(d, 1, Len(d) - 1)

NoFailure == [job |-> 0, call |-> "none"]

Init ==
  /\ jobs \in JobLists
  /\ clock \in InitClocks
  /\ store \in [Files -> {Absent} \cup
                         { OldTable(n) : n \in { m \in InitLens : m * Interval <= clock } }]
  /\ pc = "loop"
  /\ i = 1
  /\ run = 1
  /\ latest_ts = 0
  /\ df = << >>
  /\ start_str = 0
  /\ now = 0
  /\ start_point_dt = 0
  /\ windows = << >>
  /\ reqs = << >>
  /\ klines = << >>
  /\ loaded = << >>
  /\ merged = << >>
  /\ started = {}
  /\ written = {}
  /\ ncalls = 0
  /\ nwrites = 0
  /\ failed = NoFailure
  /\ jobStore = store
  /\ ticks = 0
  /\ tickedInJob = FALSE
  /\ snap = [store |-> store, pc |-> "none", failed |-> NoFailure, ticks |-> 0]

AtJob == pc = "loop" /\ i <= Len(jobs)

\* variant: break instead of continue
SkipJob_break ==
  /\ AtJob
  /\ jobs[i].folder = ""
  /\ pc' = "done"
  /\ UNCHANGED << jobs, store, clock, i, run, latest_ts, df, start_str, now,
                  start_point_dt, windows, reqs, klines, loaded, merged, started,
                  written, ncalls, nwrites, failed, jobStore, ticks, tickedInJob, snap >>

\* lines 87-90: no folder, log and continue
SkipJob ==
  /\ AtJob
  /\ jobs[i].folder = ""
  /\ i' = i + 1
  /\ UNCHANGED << jobs, store, clock, pc, run, latest_ts, df, start_str, now,
                  start_point_dt, windows, reqs, klines, loaded, merged, started,
                  written, ncalls, nwrites, failed, jobStore, ticks, tickedInJob, snap >>

\* lines 92-106: get_klines(limit=5) returns
GetRecentOk ==
  /\ AtJob
  /\ jobs[i].folder # ""
  /\ started' = started \cup {i}
  /\ ncalls' = ncalls + 1
  /\ \E n \in 1..RecentLimit : latest_ts' = LatestTs(getRecent(clock, n))
  /\ jobStore' = store
  /\ tickedInJob' = FALSE
  /\ windows' = << >>
  /\ reqs' = << >>
  /\ klines' = << >>
  /\ pc' = "load"
  /\ UNCHANGED << jobs, store, clock, i, run, df, start_str, now, start_point_dt,
                  loaded, merged, written, nwrites, failed, ticks, snap >>

\* lines 92-105: get_klines raises; nothing in main catches it
GetRecentFail ==
  /\ AtJob
  /\ jobs[i].folder # ""
  /\ started' = started \cup {i}
  /\ ncalls' = ncalls + 1
  /\ jobStore' = store
  /\ failed' = [job |-> i, call |-> "getRecent"]
  /\ pc' = "aborted"
  /\ UNCHANGED << jobs, store, clock, i, run, latest_ts, df, start_str, now,
                  start_point_dt, windows, reqs, klines, loaded, merged, written,
                  nwrites, ticks, tickedInJob, snap >>

\* lines 105-106: get_klines returns an empty list, latest_klines[-1] raises
\* IndexError, which ends main
GetRecentEmpty ==
  /\ AtJob
  /\ jobs[i].folder # ""
  /\ started' = started \cup {i}
  /\ ncalls' = ncalls + 1
  /\ jobStore' = store
  /\ pc' = "aborted"
  /\ UNCHANGED << jobs, store, clock, i, run, latest_ts, df, start_str, now,
                  start_point_dt, windows, reqs, klines, loaded, merged, written,
                  nwrites, failed, ticks, tickedInJob, snap >>

\* lines 108-114 and 147-153: no file, start from 2017-01-01
LoadNoFile ==
  /\ pc = "load"
  /\ store[jobs[i].file] = Absent
  /\ df' = << >>
  /\ loaded' = << >>
  /\ start_str' = EpochFloor
  /\ start_point_dt' = EpochFloor
  /\ now' = clock
  /\ pc' = "fetch"
  /\ UNCHANGED << jobs, store, clock, i, run, latest_ts, windows, reqs, klines,
                  merged, started, written, ncalls, nwrites, failed, jobStore,
                  ticks, tickedInJob, snap >>

\* lines 115-123 and 147-153: read the file, resume from the 5th row from the end
LoadFile ==
  /\ pc = "load"
  /\ store[jobs[i].file] # Absent
  /\ CanResume(store[jobs[i].file])
  /\ df' = store[jobs[i].file]
  /\ loaded' = store[jobs[i].file]
  /\ start_str' = ResumePoint(store[jobs[i].file])
  /\ start_point_dt' = ResumePoint(store[jobs[i].file])
  /\ now' = clock
  /\ pc' = "fetch"
  /\ UNCHANGED << jobs, store, clock, i, run, latest_ts, windows, reqs, klines,
                  merged, started, written, ncalls, nwrites, failed, jobStore,
                  ticks, tickedInJob, snap >>

\* line 121: iloc[-5] raises IndexError, which ends main
LoadFileShort ==
  /\ pc = "load"
  /\ store[jobs[i].file] # Absent
  /\ ~CanResume(store[jobs[i].file])
  /\ df' = store[jobs[i].file]
  /\ loaded' = store[jobs[i].file]
  /\ pc' = "aborted"
  /\ UNCHANGED << jobs, store, clock, i, run, latest_ts, start_str, now,
                  start_point_dt, windows, reqs, klines, merged, started, written,
                  ncalls, nwrites, failed, jobStore, ticks, tickedInJob, snap >>

\* variant: the file is written after every window
FetchOk_writeEachWindow ==
  /\ pc = "fetch"
  /\ LET end == EndDt(now, start_point_dt)
         req == << RequestStart(start_str, start_point_dt), end >>
         k == getRange(clock, req[1], req[2])
     IN /\ windows' = Append(windows, << start_point_dt, end >>)
        /\ reqs' = Append(reqs, req)
        /\ klines' = k
        /\ df' = Accumulate(klines', df)
        /\ store' = [store EXCEPT ![jobs[i].file] = df']
        /\ IF end # NoEnd
             THEN start_point_dt' = NextStart(end) /\ pc' = "fetch"
             ELSE start_point_dt' = start_point_dt /\ pc' = "trim"
  /\ ncalls' = ncalls + 1
  /\ UNCHANGED << jobs, clock, i, run, latest_ts, start_str, now, loaded,
                  merged, started, written, nwrites, failed, jobStore, ticks,
                  tickedInJob, snap >>

\* variant: the loop is left after the first iteration
FetchOk_exitEarly ==
  /\ pc = "fetch"
  /\ LET end == EndDt(now, start_point_dt)
         req == << RequestStart(start_str, start_point_dt), end >>
         k == getRange(clock, req[1], req[2])
     IN /\ windows' = Append(windows, << start_point_dt, end >>)
        /\ reqs' = Append(reqs, req)
        /\ klines' = k
        /\ df' = Accumulate(klines', df)
        /\ start_point_dt' = start_point_dt
        /\ pc' = "trim"
  /\ ncalls' = ncalls + 1
  /\ UNCHANGED << jobs, store, clock, i, run, latest_ts, start_str, now, loaded,
                  merged, started, written, nwrites, failed, jobStore, ticks,
                  tickedInJob, snap >>

\* lines 155-180: one iteration of the loop, get_historical_klines returns
FetchOk ==
  /\ pc = "fetch"
  /\ LET end == EndDt(now, start_point_dt)
         req == << RequestStart(start_str, start_point_dt), end >>
         k == getRange(clock, req[1], req[2])
     IN /\ windows' = Append(windows, << start_point_dt, end >>)
        /\ reqs' = Append(reqs, req)
        /\ klines' = k
        /\ df' = Accumulate(klines', df)
        /\ IF end # NoEnd
             THEN start_point_dt' = NextStart(end) /\ pc' = "fetch"
             ELSE start_point_dt' = start_point_dt /\ pc' = "trim"
  /\ ncalls' = ncalls + 1
  /\ UNCHANGED << jobs, store, clock, i, run, latest_ts, start_str, now, loaded,
                  merged, started, written, nwrites, failed, jobStore, ticks,
                  tickedInJob, snap >>

\* variant: what has been merged so far is written when the call raises
FetchFail_savePartial ==
  /\ pc = "fetch"
  /\ LET end == EndDt(now, start_point_dt)
     IN /\ windows' = Append(windows, << start_point_dt, end >>)
        /\ reqs' = Append(reqs, << RequestStart(start_str, start_point_dt), end >>)
  /\ ncalls' = ncalls + 1
  /\ failed' = [job |-> i, call |-> "getRange"]
  /\ store' = [store EXCEPT ![jobs[i].file] = df]
  /\ pc' = "aborted"
  /\ UNCHANGED << jobs, clock, i, run, latest_ts, df, start_str, now,
                  start_point_dt, klines, loaded, merged, started, written,
                  nwrites, jobStore, ticks, tickedInJob, snap >>

\* lines 155-174: get_historical_klines raises; nothing catches it
FetchFail ==
  /\ pc = "fetch"
  /\ LET end == EndDt(now, start_point_dt)
     IN /\ windows' = Append(windows, << start_point_dt, end >>)
        /\ reqs' = Append(reqs, << RequestStart(start_str, start_point_dt), end >>)
  /\ ncalls' = ncalls + 1
  /\ failed' = [job |-> i, call |-> "getRange"]
  /\ pc' = "aborted"
  /\ UNCHANGED << jobs, store, clock, i, run, latest_ts, df, start_str, now,
                  start_point_dt, klines, loaded, merged, started, written,
                  nwrites, jobStore, ticks, tickedInJob, snap >>

\* lines 182-187: drop the last row, write the file, back to the for loop
Persist ==
  /\ pc = "trim"
  /\ merged' = df
  /\ df' = Trim(df)
  /\ store' = [store EXCEPT ![jobs[i].file] = Trim(df)]
  /\ written' = written \cup {i}
  /\ nwrites' = nwrites + 1
  /\ i' = i + 1
  /\ pc' = "loop"
  /\ UNCHANGED << jobs, clock, run, latest_ts, start_str, now, start_point_dt,
                  windows, reqs, klines, loaded, started, ncalls, failed,
                  jobStore, ticks, tickedInJob, snap >>

\* lines 135-138: the for loop is exhausted
Finish ==
  /\ pc = "loop"
  /\ i > Len(jobs)
  /\ pc' = "done"
  /\ UNCHANGED << jobs, store, clock, i, run, latest_ts, df, start_str, now,
                  start_point_dt, windows, reqs, klines, loaded, merged, started,
                  written, ncalls, nwrites, failed, jobStore, ticks, tickedInJob, snap >>

\* time passes on the server while a job runs: the open kline closes and a
\* new one opens
Tick ==
  /\ pc \in {"load", "fetch"}
  /\ ticks < MaxTicks
  /\ clock' = clock + Interval
  /\ ticks' = ticks + 1
  /\ tickedInJob' = TRUE
  /\ UNCHANGED << jobs, store, pc, i, run, latest_ts, df, start_str, now,
                  start_point_dt, windows, reqs, klines, loaded, merged, started,
                  written, ncalls, nwrites, failed, jobStore, snap >>

\* the script is invoked again with the same configuration
Rerun ==
  /\ pc \in {"done", "aborted"}
  /\ run < MaxRuns
  /\ run' = run + 1
  /\ snap' = [store |-> store, pc |-> pc, failed |-> failed, ticks |-> ticks]
  /\ pc' = "loop"
  /\ i' = 1
  /\ started' = {}
  /\ written' = {}
  /\ ncalls' = 0
  /\ nwrites' = 0
  /\ failed' = NoFailure
  /\ UNCHANGED << jobs, store, clock, latest_ts, df, start_str, now,
                  start_point_dt, windows, reqs, klines, loaded, merged,
                  jobStore, ticks, tickedInJob >>

Next ==
  \/ SkipJob
  \/ GetRecentOk
  \/ GetRecentFail
  \/ GetRecentEmpty
  \/ LoadNoFile
  \/ LoadFile
  \/ LoadFileShort
  \/ FetchOk
  \/ FetchFail
  \/ Persist
  \/ Finish
  \/ Tick
  \/ Rerun

Spec == Init /\ [][Next]_vars

\* the statements of one job run one after the other: a fetch that does not
\* raise returns, and the write follows the loop
\* (one invocation of the script)
NextOneRun ==
  \/ SkipJob
  \/ GetRecentOk
  \/ GetRecentFail
  \/ GetRecentEmpty
  \/ LoadNoFile
  \/ LoadFile
  \/ LoadFileShort
  \/ FetchOk
  \/ FetchFail
  \/ Persist
  \/ Finish
  \/ Tick

\* the job lists of the runs checked for termination
LiveJobLists ==
  { << [folder |-> "BTC", file |-> "f1"], [folder |-> "", file |-> "f1"] >>,
    << [folder |-> "ETH", file |-> "f2"], [folder |-> "BTC", file |-> "f1"] >> }

LiveInit == Init /\ jobs \in LiveJobLists

LiveSpec == LiveInit /\ [][NextOneRun]_vars /\ WF_vars(FetchOk) /\ WF_vars(Persist)

\* the process is killed while a job loads or fetches
Kill ==
  /\ pc \in {"load", "fetch"}
  /\ pc' = "killed"
  /\ UNCHANGED << jobs, store, clock, i, run, latest_ts, df, start_str, now,
                  start_point_dt, windows, reqs, klines, loaded, merged, started,
                  written, ncalls, nwrites, failed, jobStore, ticks, tickedInJob, snap >>

\* line 185: the process is killed inside df.to_csv(file_name), which writes
\* to the file in place: the first n rows have reached the file
KillInWrite ==
  /\ pc = "trim"
  /\ \E n \in 0..Len(Trim(df)) :
        store' = [store EXCEPT ![jobs[i].file] = SubSeq(Trim(df), 1, n)]
  /\ pc' = "killed"
  /\ UNCHANGED << jobs, clock, i, run, latest_ts, df, start_str, now,
                  start_point_dt, windows, reqs, klines, loaded, merged, started,
                  written, ncalls, nwrites, failed, jobStore, ticks, tickedInJob, snap >>

NextCrash ==
  \/ Next
  \/ Kill
  \/ KillInWrite

CrashSpec == Init /\ [][NextCrash]_vars

TypeOK ==
  /\ pc \in {"loop", "load", "fetch", "trim", "done", "aborted", "killed"}
  /\ i \in 1..(Len(jobs) + 1)
  /\ run \in 1..MaxRuns


\* ---- shorthands of the properties ----
Last(tbl) == tbl[Len(tbl)]

AllButLast(tbl) == [k \in 1..(IF Len(tbl) = 0 THEN 0 ELSE Len(tbl) - 1) |-> tbl[k]]

RunOver == pc \in {"done", "aborted"}

\* the job before i has just written its file
JustPersisted == pc = "loop" /\ i > 1 /\ (i - 1) \in written

PersistedTable == store[jobs[i - 1].file]

\* C1: if a remote call of job k fails, every later job with a folder is
\* still started; the run does not stop at job k.
C1_FailureIsolation ==
  (RunOver /\ failed.job # 0) =>
     \A j \in (failed.job + 1)..Len(jobs) : jobs[j].folder # "" => j \in started

\* C2: when a getRange call of a job fails, in whichever window, the files
\* are exactly what they were when the job started.
C2_NoPartialState ==
  (pc = "aborted" /\ failed.call = "getRange") => store = jobStore

\* a middle window failed, after an earlier batch had been merged
C2_Witness ==
  /\ pc = "aborted"
  /\ failed.call = "getRange"
  /\ Len(reqs) = 2
  /\ reqs[2][2] # NoEnd
  /\ df # loaded
  /\ store = jobStore

\* C3: two invocations in a row with the server's data unchanged and no
\* remote failure both succeed and leave the same files.
C3_Idempotent ==
  (run = 2 /\ RunOver /\ ticks = 0 /\ failed = NoFailure /\ snap.failed = NoFailure) =>
     (snap.pc = "done" /\ pc = "done" /\ store = snap.store)

\* C4 as stated: after a successful sync the last row written is strictly
\* older than the latest kline of get_klines minus one interval.
C4_TrimStrictlyBelowRecent ==
  (JustPersisted /\ Len(PersistedTable) > 0) =>
     Last(PersistedTable).ts < latest_ts - Interval

\* C4 amended: the last row written is strictly older than the last kline
\* of the job's last fetch and no open kline is written; it is at most the
\* latest kline of get_klines minus one interval when no kline opened
\* between get_klines and the fetches.
C4_TrimBelowFetched ==
  JustPersisted =>
     /\ Len(klines) > 0
     /\ \A k \in 1..Len(PersistedTable) :
          /\ PersistedTable[k].v # "open"
          /\ PersistedTable[k].ts < Last(klines).ts
          /\ ~tickedInJob => PersistedTable[k].ts <= latest_ts - Interval

\* a kline opened during the job and the kline get_klines reported is written
C4_Witness ==
  /\ JustPersisted
  /\ tickedInJob
  /\ Len(PersistedTable) > 0
  /\ Last(PersistedTable).ts = latest_ts
  /\ Last(PersistedTable).v = "closed"

\* a merge has happened in the current job and df is its result
AfterMerge == pc \in {"fetch", "trim"} /\ Len(reqs) > 0

C7_Contiguous ==
  \A n \in 1..(Len(windows) - 1) : windows[n][2] = windows[n + 1][1]

\* C7 amended: each window but the last is one year long and the next one
\* starts one day before its end, so the windows leave no gap and overlap
\* by one day; the last window is open.
C7_OverlapOneDay ==
  /\ \A n \in 1..(Len(windows) - 1) :
       /\ windows[n][2] = windows[n][1] + OneYear
       /\ windows[n + 1][1] = windows[n][2] - OneDay
  /\ pc = "trim" => (Len(windows) > 0 /\ windows[Len(windows)][2] = NoEnd)

C7_Witness ==
  /\ pc = "trim"
  /\ Len(windows) >= 3
  /\ windows[2][1] = windows[1][2] - OneDay

\* C8: a job whose file exists with n >= 1 rows resumes from the 5th row
\* from the end and goes on to fetch; with no file it starts from 2017-01-01.
C8_ResumePoint ==
  [][ (pc = "load" /\ pc' # "load" /\ Len(store[jobs[i].file]) >= 1) =>
        /\ pc' = "fetch"
        /\ start_str' =
             (IF store[jobs[i].file] = Absent THEN EpochFloor
              ELSE LET t == store[jobs[i].file]
                   IN IF Len(t) >= 5 THEN t[Len(t) - 4].ts ELSE 0 - 2) ]_vars

\* C9: an entry without folder makes no remote call and no write, is not
\* started, and the loop moves on to the next entry.
C9_ConfigSkipped ==
  [][ (AtJob /\ jobs[i].folder = "") =>
        /\ ncalls' = ncalls
        /\ nwrites' = nwrites
        /\ store' = store
        /\ i \notin started'
        /\ (i' = i + 1 /\ pc' = "loop") \/ (i' = i /\ pc' = pc) ]_vars

\* the first entry had no folder and the second one was synced
C9_Witness ==
  /\ pc = "done"
  /\ jobs[1].folder = ""
  /\ 1 \notin started
  /\ 2 \in written

\* C10: the table written is the merged table without its last row; a
\* merged table of at most one row gives an empty table, and the job still
\* counts as done.
C10_UnconditionalTrim ==
  JustPersisted =>
     /\ PersistedTable = AllButLast(merged)
     /\ Len(merged) <= 1 => PersistedTable = << >>

\* one merged row, an empty table written
C10_Witness ==
  /\ JustPersisted
  /\ Len(merged) = 1
  /\ PersistedTable = << >>


\* C11: every request carries the bounds of its window: start = the cursor
\* start_point_dt, end = end_dt.
C11_RequestUsesWindow ==
  \A n \in 1..Len(reqs) : n <= Len(windows) /\ reqs[n] = windows[n]

\* C12: every request asks for at most one year: end - start <= 365 days,
\* and now - start <= 365 days for the open-ended one.
C12_SpanAtMostOneYear ==
  pc \in {"fetch", "trim"} =>
     \A n \in 1..Len(reqs) :
        IF reqs[n][2] = NoEnd
          THEN now - reqs[n][1] <= OneYear
          ELSE reqs[n][2] - reqs[n][1] <= OneYear

\* C14: when the loop is left, now - start <= one year (365 days included)
\* gave exactly one request, open-ended; a longer range gave at least two,
\* the first one bounded.
C14_SingleWindowEdge ==
  pc = "trim" =>
     /\ now - start_str <= OneYear => (Len(reqs) = 1 /\ reqs[1][2] = NoEnd)
     /\ now - start_str > OneYear => (Len(reqs) >= 2 /\ reqs[1][2] # NoEnd)

\* exactly 365 days, one open-ended request
C14_Witness ==
  /\ pc = "trim"
  /\ now - start_str = OneYear
  /\ Len(reqs) = 1
  /\ reqs[1][2] = NoEnd

\* the instant t lies in the range of the request r
InRange(t, r) == r[1] <= t /\ (r[2] = NoEnd \/ t <= r[2])

\* C18: when the loop is left, every instant from the resume point up to
\* now lies in the range of some request, and the last request is open.
C18_RangesCover ==
  pc = "trim" =>
     /\ start_str <= now
     /\ \A t \in start_str..(now - 1) : \E n \in 1..Len(reqs) : InRange(t, reqs[n])
     /\ Len(reqs) > 0
     /\ reqs[Len(reqs)][2] = NoEnd

\* a resumed job of several windows
C18_Witness ==
  /\ pc = "trim"
  /\ Len(reqs) >= 2
  /\ start_str > EpochFloor
  /\ start_str < now
  /\ \A t \in start_str..(now - 1) : \E n \in 1..Len(reqs) : InRange(t, reqs[n])


\* exactly one request is open-ended and it is the last one
OneOpenLast ==
  /\ Len(reqs) > 0
  /\ \A n \in 1..Len(reqs) : (reqs[n][2] = NoEnd) <=> (n = Len(reqs))

\* C13: when no remote call raises, the loop ends after finitely many
\* requests, exactly one of them open-ended and that one the last, and the
\* job goes on to drop the last row and write the file.
C13_LoopTerminates ==
  /\ [](pc = "trim" =>
          /\ OneOpenLast
          /\ Len(reqs) <= ((now - start_str) \div (OneYear - OneDay)) + 1)
  /\ ((pc = "fetch") ~> (JustPersisted \/ pc = "aborted"))

\* a job of three requests has written its file
C13_Witness ==
  /\ JustPersisted
  /\ Len(reqs) >= 3
  /\ OneOpenLast


\* C15: the file of a job is written once, by the step that follows the
\* last (open-ended) fetch and holds the merged table without its last row;
\* no other step of the run changes a file, and a job that ends in an
\* exception has written nothing.
C15_SinglePersist ==
  [][ /\ (nwrites' = nwrites \/ run' # run) => store' = store
      /\ (nwrites' # nwrites /\ run' = run) =>
            /\ pc = "trim"
            /\ OneOpenLast
            /\ nwrites' = nwrites + 1
            /\ i \notin written
            /\ written' = written \cup {i}
            /\ store' = [store EXCEPT ![jobs[i].file] = AllButLast(df)]
      /\ pc' = "aborted" => (i \notin written' /\ store' = store) ]_vars

\* two jobs done, two writes, the second after several windows
C15_Witness ==
  /\ pc = "done"
  /\ written = {1, 2}
  /\ nwrites = 2
  /\ Len(reqs) >= 2

\* C16: after the process is killed during a job, the job's file is either
\* the table of before the job or the complete final table.
C16_AtomicUnderCrash ==
  pc = "killed" =>
     /\ store[jobs[i].file] \in {jobStore[jobs[i].file], AllButLast(df)}
     /\ \A f \in Files \ {jobs[i].file} : store[f] = jobStore[f]

\* C17: what get_klines returns does not change the course of the job:
\* whatever list it returns, the empty one included, the job goes on to
\* load the file, as it does for the full list.
C17_RecentIrrelevant ==
  [][ (AtJob /\ jobs[i].folder # "" /\ pc' # "loop" /\ failed' = failed) =>
         pc' = "load" ]_vars

\* C19: a step of the job of one symbol leaves the file of every entry with
\* another symbol unchanged, and the file a job reads was not written in
\* this run by the job of another symbol.
C19_OwnSeriesOnly ==
  [][ (pc = "load" \/ pc = "fetch" \/ pc = "trim") =>
        ( /\ \A j \in 1..Len(jobs) :
               (jobs[j].folder # "" /\ jobs[j].folder # jobs[i].folder) =>
                  store'[jobs[j].file] = store[jobs[j].file]
          /\ (pc = "load" /\ pc' = "fetch") =>
                (\A j \in written :
                    jobs[j].file = jobs[i].file => jobs[j].folder = jobs[i].folder) )
    ]_vars

====
